---- MODULE Spec2Model ----
\* Model of the client-side session controller AuthProvider
\* (frontend/src/contexts/AuthContext.jsx): the `user` state, the 'token'
\* entry of localStorage, the mount effect checkAuth/fetchUserData and the
\* operations logout, login and register, with the HTTP services as a
\* nondeterministic environment.
EXTENDS Integers, Sequences

\* ---------------------------------------------------------------- bounds
\* Number of login() calls that may be in flight at the same time.
MaxLogins == 2

LoginCalls == 1..MaxLogins

\* ------------------------------------------------------------ JS values
Null == [type |-> "null"]

Undefined == [type |-> "undefined"]

Str(s) == [type |-> "string", val |-> s]

\* JavaScript truthiness of the values that occur here.
Truthy(v) ==
    CASE v.type = "string" -> v.val # ""
      [] v.type = "object" -> TRUE
      [] OTHER -> FALSE

\* String conversion done by localStorage.setItem and by template literals.
ToString(v) ==
    CASE v.type = "undefined" -> Str("undefined")
      [] v.type = "null" -> Str("null")
      [] OTHER -> v

\* -------------------------------------------------- environment (services)
\* Tokens the Authentication Service may grant.
Tokens == {"t1", "t2"}

\* Values of the firstname / lastname fields of an identity payload.
FirstNames == {Str(""), Str("Ada"), Str("Grace")}

LastNames == {Undefined, Str("Lovelace")}

UserObjects ==
    {[type |-> "object", firstname |-> f, lastname |-> l] :
        f \in FirstNames, l \in LastNames}

\* A response body on which response.json() rejects.
Unparsable == [type |-> "unparsable"]

\* Bodies of GET /user/me: not JSON, JSON null, {} or {user: {...}}.
MeBodies ==
    {Unparsable, Null} \cup
    {[type |-> "object", user |-> u] : u \in {Undefined} \cup UserObjects}

Messages == {Undefined, Str(""), Str("bad credentials")}

\* Bodies of POST /login: not JSON, JSON null, {message?} or {token}.
LoginBodies ==
    {Unparsable, Null} \cup
    {[type |-> "object", message |-> m, token |-> Undefined] : m \in Messages} \cup
    {[type |-> "object", message |-> Undefined, token |-> Str(t)] : t \in Tokens}

\* Bodies of POST /register: not JSON, JSON null or {message?}.
RegisterBodies ==
    {Unparsable, Null} \cup
    {[type |-> "object", message |-> m] : m \in Messages}

\* Outcome of an awaited fetch(): the promise rejects (fail) or resolves to a
\* response with the flag response.ok and a body that response.json() reads.
NetErr(url) == [url |-> url, fail |-> TRUE, ok |-> FALSE, body |-> Unparsable]

Resp(url, ok, body) == [url |-> url, fail |-> FALSE, ok |-> ok, body |-> body]

NoResp == [url |-> "none", fail |-> FALSE, ok |-> FALSE, body |-> Unparsable]

\* A non-2xx answer of /user/me is never parsed: one unparsed body suffices.
MeResponses ==
    {NetErr("/user/me"), Resp("/user/me", FALSE, Unparsable)} \cup
    {Resp("/user/me", TRUE, b) : b \in MeBodies}

LoginResponses ==
    {NetErr("/login")} \cup
    {Resp("/login", ok, b) : ok \in BOOLEAN, b \in LoginBodies}

RegisterResponses ==
    {NetErr("/register")} \cup
    {Resp("/register", ok, b) : ok \in BOOLEAN, b \in RegisterBodies}

\* ------------------------------------------------------------------ state
VARIABLES
    user,        \* useState value: Null or the installed user object
    token,       \* localStorage 'token': Null (absent) or a string
    resPc,       \* mount effect: "start", "awaitMe", "done"
    resBearer,   \* token sent by the mount effect's GET /user/me
    loginPc,     \* per login call: "idle", "awaitLogin", "awaitMe"
    loginBearer, \* per login call: loginData.token as sent in the header
    regPc,       \* register call: "idle", "await"
    lastOp,      \* handler that ran the latest step
    lastResp,    \* response that step consumed (NoResp: none)
    lastRet,     \* value that step returned to its caller (Pending: none)
    navigated,   \* navigate() targets that step called, in order
    loggedOut,   \* history: logout() has run since the mount
    lastReturned,\* history: latest payload of the Identity Service, and for
                 \* which bearer token it was returned
    race         \* history of the current group of overlapping login calls

vars ==
    <<user, token, resPc, resBearer, loginPc, loginBearer, regPc,
      lastOp, lastResp, lastRet, navigated, loggedOut, lastReturned, race>>

Pending == [type |-> "pending"]

Op(name, c) == [name |-> name, call |-> c]

\* What the latest step did towards the rest of the application.
Observe(name, c, r, ret, nav) ==
    /\ lastOp' = Op(name, c)
    /\ lastResp' = r
    /\ lastRet' = ret
    /\ navigated' = nav

\* No identity payload was returned yet.
NoIdentity == [bearer |-> Null, user |-> Undefined]

\* No login call was made yet: no overlap, no identity resolution completed
\* and no write to the store by a login call.
NoRace == [overlap |-> FALSE, identity |-> Pending, write |-> Pending]

Init ==
    /\ loggedOut = FALSE
    /\ lastReturned = NoIdentity
    /\ race = NoRace
    /\ user = Null
    /\ token \in {Null, Str("undefined")} \cup {Str(t) : t \in Tokens}
    /\ resPc = "start"
    /\ resBearer = Null
    /\ loginPc = [c \in LoginCalls |-> "idle"]
    /\ loginBearer = [c \in LoginCalls |-> Null]
    /\ regPc = "idle"
    /\ lastOp = Op("mount", 0)
    /\ lastResp = NoResp
    /\ lastRet = Pending
    /\ navigated = <<>>

\* The mount effect has run: React flushes it before any UI event is handled.
Mounted == resPc # "start"

\* ------------------------------------------------- checkAuth / fetchUserData
\* checkAuth up to its first await: both getItem calls happen in one tick.
checkAuth ==
    /\ resPc = "start"
    /\ IF Truthy(token)
       THEN /\ resPc' = "awaitMe"
            /\ resBearer' = token
            /\ UNCHANGED user
            /\ Observe("checkAuth", 0, NoResp, Pending, <<>>)
       ELSE /\ user' = Null
            /\ resPc' = "done"
            /\ UNCHANGED resBearer
            /\ Observe("checkAuth", 0, NoResp, Undefined, <<>>)
    /\ UNCHANGED <<token, loginPc, loginBearer, regPc>>

fetchUserDataValid_FirstnameOnly(userData) ==
    Truthy(userData) /\ Truthy(userData.firstname)

\* The validation of line 53.
fetchUserDataValid(userData) ==
    Truthy(userData) /\ Truthy(userData.firstname) /\ Truthy(userData.lastname)

\* Awaiting /user/me throws: fetch rejects, json() rejects, or the
\* destructuring of a JSON null throws a TypeError.
MeThrows(r) == r.fail \/ (r.ok /\ r.body \in {Unparsable, Null})

\* fetchUserData from the answer of /user/me to its end.  fetch and json()
\* are awaited one after the other and nothing shared is read or written
\* between them, so the answer and its body arrive in one step.
fetchUserData ==
    /\ resPc = "awaitMe"
    /\ \E r \in MeResponses :
        /\ IF ~MeThrows(r) /\ r.ok /\ fetchUserDataValid(r.body.user)
           THEN /\ user' = r.body.user
                /\ UNCHANGED token
           ELSE /\ token' = Null
                /\ user' = Null
        /\ Observe("fetchUserData", 0, r, Undefined, <<>>)
    /\ resPc' = "done"
    /\ resBearer' = Null
    /\ UNCHANGED <<loginPc, loginBearer, regPc>>

\* ------------------------------------------------------------------ logout
logout_KeepsToken ==
    /\ Mounted
    /\ user' = Null
    /\ Observe("logout", 0, NoResp, Undefined, <<"/">>)
    /\ UNCHANGED <<token, resPc, resBearer, loginPc, loginBearer, regPc>>

logout ==
    /\ Mounted
    /\ token' = Null
    /\ user' = Null
    /\ Observe("logout", 0, NoResp, Undefined, <<"/">>)
    /\ UNCHANGED <<resPc, resBearer, loginPc, loginBearer, regPc>>

\* ------------------------------------------------------------------- login
LoginCatchMessage == Str("An error occurred during login")

LoginInvalidMessage == Str("Invalid user data received")

LoginFetchFailedMessage == Str("Failed to fetch user data")

\* login(username, password) up to the await of POST /login.  The arguments
\* only travel to the service, whose answer is nondeterministic.
loginCall(c) ==
    /\ Mounted
    /\ loginPc[c] = "idle"
    /\ loginPc' = [loginPc EXCEPT ![c] = "awaitLogin"]
    /\ Observe("login", c, NoResp, Pending, <<>>)
    /\ UNCHANGED <<user, token, resPc, resBearer, loginBearer, regPc>>

\* Result of a handler whose promise rejects: an exception left it uncaught.
Uncaught == [type |-> "uncaught"]

loginCatch_Rethrows(c, r) ==
    /\ token' = Null
    /\ user' = Null
    /\ loginPc' = [loginPc EXCEPT ![c] = "idle"]
    /\ loginBearer' = [loginBearer EXCEPT ![c] = Null]
    /\ Observe("login", c, r, Uncaught, <<>>)

loginCatch_Retries(c, r) ==
    /\ token' = Null
    /\ user' = Null
    /\ UNCHANGED <<loginPc, loginBearer>>
    /\ Observe("login", c, r, Pending, <<>>)

loginCatch_KeepsToken(c, r) ==
    /\ user' = Null
    /\ loginPc' = [loginPc EXCEPT ![c] = "idle"]
    /\ loginBearer' = [loginBearer EXCEPT ![c] = Null]
    /\ Observe("login", c, r, LoginCatchMessage, <<>>)
    /\ UNCHANGED token

\* The catch block of login.
loginCatch(c, r) ==
    /\ token' = Null
    /\ user' = Null
    /\ loginPc' = [loginPc EXCEPT ![c] = "idle"]
    /\ loginBearer' = [loginBearer EXCEPT ![c] = Null]
    /\ Observe("login", c, r, LoginCatchMessage, <<>>)

\* Reading loginData.message or loginData.token throws on a JSON null.
LoginThrows(r) == r.fail \/ r.body \in {Unparsable, Null}

loginFailureResult_Generic(loginData) == LoginCatchMessage

\* The early return of line 103.
loginFailureResult(loginData) == loginData.message

loginStoredToken_WholeBody(loginData) == Str("[object Object]")

\* The string that setItem('token', loginData.token) stores.
loginStoredToken(loginData) == ToString(loginData.token)

\* The token interpolated into the Authorization header of GET /user/me.
loginAuthorization(loginData) == ToString(loginData.token)

\* login from the answer of POST /login to the await of GET /user/me.  As in
\* fetchUserData, fetch and json() are awaited back to back with no shared
\* read or write in between, so the answer and its body arrive in one step.
loginResponse(c) ==
    /\ loginPc[c] = "awaitLogin"
    /\ \E r \in LoginResponses :
        IF LoginThrows(r) THEN loginCatch(c, r)
        ELSE IF ~r.ok
        THEN /\ loginPc' = [loginPc EXCEPT ![c] = "idle"]
             /\ Observe("login", c, r, loginFailureResult(r.body), <<>>)
             /\ UNCHANGED <<user, token, loginBearer>>
        ELSE /\ token' = loginStoredToken(r.body)
             /\ loginBearer' = [loginBearer EXCEPT ![c] = loginAuthorization(r.body)]
             /\ loginPc' = [loginPc EXCEPT ![c] = "awaitMe"]
             /\ Observe("login", c, r, Pending, <<>>)
             /\ UNCHANGED user
    /\ UNCHANGED <<resPc, resBearer, regPc>>

loginValid_FirstnameOnly(userData) ==
    Truthy(userData) /\ Truthy(userData.firstname)

\* The validation of line 119.
loginValid(userData) ==
    Truthy(userData) /\ Truthy(userData.firstname) /\ Truthy(userData.lastname)

\* login from the answer of GET /user/me to its return.
loginUserResponse(c) ==
    /\ loginPc[c] = "awaitMe"
    /\ \E r \in MeResponses :
        IF MeThrows(r) THEN loginCatch(c, r)
        ELSE /\ loginPc' = [loginPc EXCEPT ![c] = "idle"]
             /\ loginBearer' = [loginBearer EXCEPT ![c] = Null]
             /\ IF r.ok /\ loginValid(r.body.user)
                THEN /\ user' = r.body.user
                     /\ UNCHANGED token
                     /\ Observe("login", c, r, Null, <<"/profile">>)
                ELSE /\ token' = Null
                     /\ user' = Null
                     /\ Observe("login", c, r,
                                IF r.ok THEN LoginInvalidMessage
                                        ELSE LoginFetchFailedMessage, <<>>)
    /\ UNCHANGED <<resPc, resBearer, regPc>>

\* ---------------------------------------------------------------- register
RegisterCatchMessage == Str("An error occurred during registration")

\* register(userData) up to the await of POST /register.
registerCall ==
    /\ Mounted
    /\ regPc = "idle"
    /\ regPc' = "await"
    /\ Observe("register", 0, NoResp, Pending, <<>>)
    /\ UNCHANGED <<user, token, resPc, resBearer, loginPc, loginBearer>>

\* json() rejects, or data.message is read on a JSON null.
RegisterThrows(r) ==
    r.fail \/ r.body = Unparsable \/ (~r.ok /\ r.body = Null)

registerFailureResult_Generic(data) == RegisterCatchMessage

\* The early return of line 162.
registerFailureResult(data) == data.message

registerResponse_ClearsSession ==
    /\ regPc = "await"
    /\ \E r \in RegisterResponses :
        IF RegisterThrows(r)
        THEN /\ token' = Null
             /\ user' = Null
             /\ Observe("register", 0, r, RegisterCatchMessage, <<>>)
        ELSE /\ UNCHANGED <<user, token>>
             /\ IF ~r.ok
                THEN Observe("register", 0, r, registerFailureResult(r.body), <<>>)
                ELSE Observe("register", 0, r, Null, <<"/success">>)
    /\ regPc' = "idle"
    /\ UNCHANGED <<resPc, resBearer, loginPc, loginBearer>>

\* register from the answer of POST /register to its return (fetch and
\* json() in one step, as above).
registerResponse ==
    /\ regPc = "await"
    /\ \E r \in RegisterResponses :
        IF RegisterThrows(r)
        THEN Observe("register", 0, r, RegisterCatchMessage, <<>>)
        ELSE IF ~r.ok
        THEN Observe("register", 0, r, registerFailureResult(r.body), <<>>)
        ELSE Observe("register", 0, r, Null, <<"/success">>)
    /\ regPc' = "idle"
    /\ UNCHANGED <<user, token, resPc, resBearer, loginPc, loginBearer>>

\* The token which the identity fetch answered by that step carried.
StepBearer ==
    IF lastOp'.name = "fetchUserData" THEN resBearer
    ELSE loginBearer[lastOp'.call]

\* ---------------------------------------------------------------- history
\* The history variables record what the step just taken did; each
\* specification says which of them it keeps.
TrackLogout == loggedOut' = (loggedOut \/ lastOp'.name = "logout")

\* A 2xx answer of /user/me with a JSON object as body returns body.user.
TrackReturned ==
    lastReturned' =
        IF /\ lastResp'.url = "/user/me" /\ ~lastResp'.fail /\ lastResp'.ok
           /\ lastResp'.body.type = "object"
        THEN [bearer |-> StepBearer, user |-> lastResp'.body.user]
        ELSE lastReturned

\* A login call that starts while none is in flight opens a new group, one
\* that starts while another is in flight makes the group overlapping.  Of
\* the login steps, all write the store except the start of a call, the
\* early return on a non-2xx answer of /login and the successful end; the
\* steps answering GET /user/me complete an identity resolution.
TrackRace ==
    race' =
        IF lastOp'.name # "login" THEN race
        ELSE IF lastResp' = NoResp
        THEN IF \A c \in LoginCalls : loginPc[c] = "idle"
             THEN NoRace
             ELSE [race EXCEPT !.overlap = TRUE]
        ELSE IF lastResp'.url = "/login"
        THEN IF ~lastResp'.fail /\ ~lastResp'.ok /\ lastResp'.body.type = "object"
             THEN race
             ELSE [race EXCEPT !.write = token']
        ELSE [race EXCEPT !.identity = user',
                          !.write = IF lastRet' = Null THEN @ ELSE token']

NoHistory == UNCHANGED <<loggedOut, lastReturned, race>>

\* ---------------------------------------------------------- specifications
\* Any interleaving of the handlers at their await points.
Next ==
    \/ checkAuth /\ NoHistory
    \/ fetchUserData /\ NoHistory
    \/ logout /\ NoHistory
    \/ (\E c \in LoginCalls : loginCall(c)) /\ NoHistory
    \/ (\E c \in LoginCalls : loginResponse(c)) /\ NoHistory
    \/ (\E c \in LoginCalls : loginUserResponse(c)) /\ NoHistory
    \/ registerCall /\ NoHistory
    \/ registerResponse /\ NoHistory

Spec == Init /\ [][Next]_vars

\* No operation is in flight.
Quiet ==
    /\ resPc # "awaitMe"
    /\ \A c \in LoginCalls : loginPc[c] = "idle"
    /\ regPc = "idle"

\* Sequential runs: an operation starts only when no other is in flight.
\* It keeps the history of the identity payloads.
SeqHistory == TrackReturned /\ UNCHANGED <<loggedOut, race>>

SeqNext ==
    \/ checkAuth /\ SeqHistory
    \/ fetchUserData /\ SeqHistory
    \/ Quiet /\ logout /\ SeqHistory
    \/ Quiet /\ (\E c \in LoginCalls : loginCall(c)) /\ SeqHistory
    \/ (\E c \in LoginCalls : loginResponse(c)) /\ SeqHistory
    \/ (\E c \in LoginCalls : loginUserResponse(c)) /\ SeqHistory
    \/ Quiet /\ registerCall /\ SeqHistory
    \/ registerResponse /\ SeqHistory

SeqSpec == Init /\ [][SeqNext]_vars

\* Any interleaving, keeping the history of logout().
LogoutHistory == TrackLogout /\ UNCHANGED <<lastReturned, race>>

LogoutNext ==
    \/ checkAuth /\ LogoutHistory
    \/ fetchUserData /\ LogoutHistory
    \/ logout /\ LogoutHistory
    \/ (\E c \in LoginCalls : loginCall(c)) /\ LogoutHistory
    \/ (\E c \in LoginCalls : loginResponse(c)) /\ LogoutHistory
    \/ (\E c \in LoginCalls : loginUserResponse(c)) /\ LogoutHistory
    \/ registerCall /\ LogoutHistory
    \/ registerResponse /\ LogoutHistory

LogoutSpec == Init /\ [][LogoutNext]_vars

\* Login calls alone, overlapping at will, once the startup resolution has
\* finished; keeps the history of the group of overlapping calls.
RaceHistory == TrackRace /\ UNCHANGED <<loggedOut, lastReturned>>

RaceNext ==
    \/ checkAuth /\ RaceHistory
    \/ fetchUserData /\ RaceHistory
    \/ resPc = "done" /\ (\E c \in LoginCalls : loginCall(c)) /\ RaceHistory
    \/ (\E c \in LoginCalls : loginResponse(c)) /\ RaceHistory
    \/ (\E c \in LoginCalls : loginUserResponse(c)) /\ RaceHistory

RaceSpec == Init /\ [][RaceNext]_vars

\* ------------------------------------------------------------ properties
\* A user record whose firstname and lastname are present and non-empty.
ValidUser(u) ==
    /\ u.type = "object"
    /\ u.firstname.type = "string" /\ u.firstname.val # ""
    /\ u.lastname.type = "string" /\ u.lastname.val # ""

\* r is a 2xx answer of the Identity Service carrying a valid user.
AcceptedIdentity(r) ==
    /\ r.url = "/user/me" /\ ~r.fail /\ r.ok
    /\ r.body.type = "object"
    /\ ValidUser(r.body.user)

\* r is a 2xx answer of the Identity Service whose payload fails validation.
InvalidIdentity(r) ==
    r.url = "/user/me" /\ ~r.fail /\ r.ok /\ ~AcceptedIdentity(r)

NonEmptyString(v) == v.type = "string" /\ v.val # ""

\* C1: in sequential runs the step that finishes the initial resolution
\* leaves user null when no credential was stored; installs the payload and
\* keeps the credential it sent when the Identity Service accepted it with a
\* valid payload; and otherwise leaves user null and the store empty.
C1_InitialResolution ==
    [][(resPc # "done" /\ resPc' = "done") =>
          IF resPc = "start"
          THEN token = Null /\ user' = Null /\ token' = Null
          ELSE IF AcceptedIdentity(lastResp')
          THEN user' = lastResp'.body.user /\ token' = resBearer /\ token' # Null
          ELSE user' = Null /\ token' = Null]_vars

C1_Witness ==
    /\ lastOp.name = "fetchUserData"
    /\ AcceptedIdentity(lastResp)
    /\ user = lastResp.body.user
    /\ token \in {Str(t) : t \in Tokens}

\* C2: every logout step, whatever is in flight, ends with user null and the
\* store empty, calls navigate exactly once, with "/", and neither consumes a
\* response nor starts or finishes a request.
C2_Logout ==
    [][lastOp'.name = "logout" =>
          /\ user' = Null
          /\ token' = Null
          /\ navigated' = <<"/">>
          /\ lastResp' = NoResp
          /\ UNCHANGED <<resPc, resBearer, loginPc, loginBearer, regPc>>]_vars

C2_Witness ==
    /\ lastOp.name = "logout"
    /\ resPc = "awaitMe"
    /\ \E c \in LoginCalls : loginPc[c] = "awaitMe"
    /\ user = Null /\ token = Null /\ navigated = <<"/">>

\* C3: in sequential runs a login step that receives a granted token stores
\* it; the login step that then receives a valid user installs it, keeps that
\* token stored, navigates once, to "/profile", and returns null; every other
\* login step navigates nowhere.
C3_LoginSuccess ==
    [][lastOp'.name = "login" =>
          LET c == lastOp'.call
              r == lastResp'
          IN  /\ (loginPc[c] = "awaitLogin" /\ loginPc'[c] = "awaitMe") =>
                    /\ token' = ToString(r.body.token)
                    /\ loginBearer'[c] = token'
                    /\ navigated' = <<>>
              /\ IF loginPc[c] = "awaitMe" /\ AcceptedIdentity(r)
                 THEN /\ user' = r.body.user
                      /\ token' = loginBearer[c]
                      /\ token' # Null
                      /\ navigated' = <<"/profile">>
                      /\ lastRet' = Null
                 ELSE navigated' = <<>>]_vars

C3_Witness ==
    /\ lastOp.name = "login"
    /\ AcceptedIdentity(lastResp)
    /\ user = lastResp.body.user
    /\ token \in {Str(t) : t \in Tokens}
    /\ navigated = <<"/profile">>
    /\ lastRet = Null

\* r is a non-2xx answer of POST /login whose JSON body has a string message.
LoginRefused(r) ==
    /\ r.url = "/login" /\ ~r.fail /\ ~r.ok
    /\ r.body.type = "object"
    /\ r.body.message.type = "string"

\* C4: a login step that receives a non-2xx answer with body {message: M}
\* returns M and changes neither user nor the store, and does not navigate.
C4_LoginRefused ==
    [][(lastOp'.name = "login" /\ LoginRefused(lastResp')) =>
          /\ lastRet' = lastResp'.body.message
          /\ user' = user
          /\ token' = token
          /\ navigated' = <<>>]_vars

C4_Witness ==
    /\ lastOp.name = "login"
    /\ LoginRefused(lastResp)
    /\ lastRet = Str("bad credentials")
    /\ ValidUser(user)
    /\ token # Null

\* r is a transport-level failure of POST /login: the request throws or the
\* body of the answer cannot be parsed.
LoginTransportFailure(r) ==
    r.url = "/login" /\ (r.fail \/ r.body = Unparsable)

\* C5: a login step that meets a transport-level failure of POST /login
\* returns a non-empty string and changes neither user nor the store.
C5_LoginTransportFailure ==
    [][(lastOp'.name = "login" /\ LoginTransportFailure(lastResp')) =>
          /\ NonEmptyString(lastRet')
          /\ user' = user
          /\ token' = token]_vars

\* C6: in sequential runs a login step that, after a granted token, receives
\* a failed identity fetch (transport error, non-2xx or invalid payload) ends
\* with user null, the store empty, no navigation and a string returned.
C6_LoginIdentityFailure ==
    [][(lastOp'.name = "login" /\ loginPc[lastOp'.call] = "awaitMe"
            /\ ~AcceptedIdentity(lastResp')) =>
          /\ user' = Null
          /\ token' = Null
          /\ navigated' = <<>>
          /\ NonEmptyString(lastRet')]_vars

C6_Witness ==
    /\ lastOp.name = "login"
    /\ InvalidIdentity(lastResp)
    /\ lastResp.body.type = "object"
    /\ lastResp.body.user.type = "object"
    /\ lastResp.body.user.lastname = Undefined
    /\ user = Null /\ token = Null /\ navigated = <<>>
    /\ lastRet = LoginInvalidMessage

C8_RegisterFrame ==
    [][lastOp'.name = "register" => (user' = user /\ token' = token)]_vars

C8_Witness ==
    /\ lastOp.name = "register"
    /\ lastResp.url = "/register"
    /\ lastResp.fail
    /\ ValidUser(user)
    /\ token # Null

\* C9: user is always null or a valid user record, and every step that
\* receives an identity payload failing validation empties the store and
\* sets user to null.
C9_OnlyValidUsers ==
    /\ [](user = Null \/ ValidUser(user))
    /\ [][InvalidIdentity(lastResp') => (token' = Null /\ user' = Null)]_vars

C9_Witness ==
    /\ lastOp.name = "login"
    /\ InvalidIdentity(lastResp)
    /\ lastResp.body.type = "object"
    /\ lastResp.body.user.type = "object"
    /\ lastResp.body.user.firstname = Str("")
    /\ user = Null /\ token = Null

\* The latest step returned from login or register.
Returned == lastOp.name \in {"login", "register"} /\ lastRet # Pending

\* The latest step completed a login or a register successfully.
Succeeded ==
    \/ lastOp.name = "login" /\ ValidUser(user) /\ navigated = <<"/profile">>
    \/ lastOp.name = "register" /\ navigated = <<"/success">>

\* C10: login and register return null exactly when they succeeded, and a
\* non-empty string whenever they failed.
C10_ResultSignalsOutcome ==
    Returned =>
        /\ (lastRet = Null) <=> Succeeded
        /\ ~Succeeded => NonEmptyString(lastRet)

\* C11: in every reachable state a non-null user implies that a credential
\* is present in the store.
C11_UserImpliesCredential == user # Null => token # Null

\* C13: a register step that succeeds (returns null) navigates to "/".
C13_RegisterNavigatesHome ==
    (lastOp.name = "register" /\ lastRet = Null) => navigated = <<"/">>

\* r is an answer that reports or constitutes a failure: a transport error,
\* a non-2xx status, a body that is not a JSON object, or an identity
\* payload that fails validation.
FailureResponse(r) ==
    /\ r.url # "none"
    /\ \/ r.fail
       \/ ~r.ok
       \/ r.body \in {Unparsable, Null}
       \/ InvalidIdentity(r)

\* C15: no handler ever ends with an uncaught exception; a step that meets
\* a failure ends its handler: the startup resolution with user null and
\* the store empty, login and register by returning a value.
C15_NoFailureEscapes ==
    /\ [](lastRet # Uncaught)
    /\ [][FailureResponse(lastResp') =>
            /\ lastRet' \notin {Pending, Uncaught}
            /\ lastOp'.name = "fetchUserData" =>
                  (user' = Null /\ token' = Null /\ resPc' = "done")
            /\ lastOp'.name = "login" => loginPc'[lastOp'.call] = "idle"
            /\ lastOp'.name = "register" => regPc' = "idle"]_vars

C15_Witness ==
    /\ lastOp.name = "login"
    /\ lastResp = Resp("/login", TRUE, Null)
    /\ lastRet = LoginCatchMessage
    /\ loginPc[lastOp.call] = "idle"

\* The step into the primed state received a failed identity fetch.
IdentityFailureStep ==
    lastResp'.url = "/user/me" /\ ~AcceptedIdentity(lastResp')

\* C17 (as stated): a step that receives a failed identity fetch removes
\* from the store only the credential which that fetch carried.
C17_RemovesOnlyOwnCredential ==
    [][IdentityFailureStep => token \in {Null, StepBearer}]_vars

\* C17 (amended): a step that receives a failed identity fetch leaves the
\* store empty and user null whatever credential was stored: the one the
\* fetch carried or one stored meanwhile by another login call.
C17_RemovesWhateverIsStored ==
    [][IdentityFailureStep => (token' = Null /\ user' = Null)]_vars

\* The startup fetch has failed while a login call that stored its own
\* token is awaiting its identity fetch.
C17_Witness ==
    /\ lastOp.name = "fetchUserData"
    /\ lastResp = Resp("/user/me", FALSE, Unparsable)
    /\ \E c \in LoginCalls :
          loginPc[c] = "awaitMe" /\ loginBearer[c] = Str("t1")
    /\ token = Null /\ user = Null

\* Every issued HTTP request eventually responds or fails: the step that
\* receives the answer of a pending request is eventually taken.
Responsive ==
    /\ WF_vars(fetchUserData /\ NoHistory)
    /\ WF_vars(registerResponse /\ NoHistory)
    /\ \A c \in LoginCalls :
          /\ WF_vars(loginResponse(c) /\ NoHistory)
          /\ WF_vars(loginUserResponse(c) /\ NoHistory)

LiveSpec == Spec /\ Responsive

\* C16: under LiveSpec every started startup resolution, login call and
\* register call eventually finishes, whatever is interleaved with it: each
\* of them is again and again not in flight (which is the same as: whenever
\* it is in flight, it is later finished).
C16_EveryOperationFinishes ==
    /\ []<>(resPc # "awaitMe")
    /\ []<>(regPc = "idle")
    /\ \A c \in LoginCalls : []<>(loginPc[c] = "idle")

C16_Witness ==
    /\ lastOp.name = "logout"
    /\ resPc = "awaitMe"
    /\ regPc = "await"
    /\ \A c \in LoginCalls : loginPc[c] # "idle"

\* The controller is Unauthenticated: user is null and the startup
\* resolution has finished or logout() has run.
Unauthenticated == user = Null /\ (resPc = "done" \/ loggedOut)

\* C12: from Unauthenticated, user becomes non-null only by the step that
\* completes a successful login call (the one returning null).
C12_OnlyLoginAuthenticates ==
    [][(Unauthenticated /\ user' # Null) =>
          (lastOp'.name = "login" /\ lastRet' = Null)]_vars

\* All calls of a group of overlapping login calls have finished.
RaceOver == race.overlap /\ \A c \in LoginCalls : loginPc[c] = "idle"

\* C14: once overlapping login calls have all finished, the store holds the
\* last write any of them made and user is what the identity resolution
\* that completed last set.
C14_LastWriteAndLastResolutionWin ==
    RaceOver =>
        /\ race.write # Pending => token = race.write
        /\ race.identity # Pending => user = race.identity

\* No operation is in flight and the startup resolution has finished.
AtRest == Quiet /\ resPc = "done"

\* C18: in sequential runs, at rest, user is non-null exactly when a
\* credential is stored, and a non-null user is the payload that the
\* Identity Service returned last, which it returned for the stored token.
C18_SequentialConsistency ==
    AtRest =>
        /\ user # Null <=> token # Null
        /\ user # Null =>
              (lastReturned.bearer = token /\ lastReturned.user = user)

C18_Witness ==
    /\ AtRest
    /\ lastOp.name = "login"
    /\ lastRet = Null
    /\ ValidUser(user)
    /\ token \in {Str(t) : t \in Tokens}
    /\ lastReturned = [bearer |-> token, user |-> user]
====
